---- MODULE Spec2Model ----
(***************************************************************************)
(* Model of the tokenizer (src/tokenize.cpp) and of the recursive-descent  *)
(* parser of variable declarations (src/parser.cpp).                       *)
(*                                                                         *)
(* A C++ string is a sequence of one-character strings; pos and index are  *)
(* 0-based as in the source, so src[pos] of the code is src[pos + 1] here. *)
(***************************************************************************)
EXTENDS Integers, Sequences, FiniteSets, TLC

VARIABLES
    src,         \* tokenize: the source text
    pos,         \* tokenize: size_t pos
    line,        \* tokenize: int line
    col,         \* tokenize: int col
    lexpc,       \* tokenize: "scan" in the loop, "aborted" after the return of
                 \* line 98, "done" after the return of line 207, "idle" when
                 \* tokenize is not part of the run
    tokens,      \* the vector<Token> built by tokenize and read by the Parser
    index,       \* Parser::index
    pc,          \* the parser's position in parseProgram / parseVarDecl
    type,        \* parseVarDecl: string type
    name,        \* parseVarDecl: string name
    initializer, \* parseVarDecl: Expr* initializer
    statements,  \* parseProgram: vector<Stmt*> statements
    program,     \* what the caller of parseProgram receives
    error,       \* the ParseException the caller catches, or NoError
    prevIdx,     \* the subscript of the last tokens[index - 1] read by previous()
    live,        \* number of AST nodes allocated with new and not deleted
    history      \* the parse runs that have ended: their tokens and outcome

lexvars == <<src, pos, line, col, lexpc>>
parsevars == <<index, pc, type, name, initializer, statements, program, error,
               prevIdx, live>>
vars == <<src, pos, line, col, lexpc, tokens, index, pc, type, name,
          initializer, statements, program, error, prevIdx, live, history>>

----------------------------------------------------------------------------
(* Bounds of the model *)

MaxTokens == 4   \* longest arbitrary token sequence given to the parser
MaxDecls == 2    \* most declarations in a well-formed program given to the parser
MaxSrcLen == 6   \* longest source text given to tokenize

BoundedSeq(S, n) == UNION {[1..k -> S] : k \in 0..n}

RECURSIVE Flatten(_)
Flatten(ss) == IF ss = <<>> THEN <<>> ELSE Head(ss) \o Flatten(Tail(ss))

Last(s) == s[Len(s)]

----------------------------------------------------------------------------
(* Strings of the program *)

S_fn == <<"f", "n">>
S_int == <<"i", "n", "t">>
S_float == <<"f", "l", "o", "a", "t">>
S_string == <<"s", "t", "r", "i", "n", "g">>
S_bool == <<"b", "o", "o", "l">>
S_return == <<"r", "e", "t", "u", "r", "n">>
S_if == <<"i", "f">>
S_else == <<"e", "l", "s", "e">>
S_for == <<"f", "o", "r">>
S_while == <<"w", "h", "i", "l", "e">>
S_break == <<"b", "r", "e", "a", "k">>
S_continue == <<"c", "o", "n", "t", "i", "n", "u", "e">>
S_true == <<"t", "r", "u", "e">>
S_false == <<"f", "a", "l", "s", "e">>

keywords == {S_fn, S_int, S_float, S_string, S_bool, S_return, S_if, S_else,
             S_for, S_while, S_break, S_continue, S_true, S_false}

Token(t, v, l, c) == [type |-> t, value |-> v, line |-> l, column |-> c]

----------------------------------------------------------------------------
(* Parser: utilities *)

NoError == [error |-> "none"]
nullptr == [node |-> "nullptr"]

\* static Token eofToken = {T_EOF, ""}: line and column are zero-initialised
eofToken == Token("T_EOF", <<>>, 0, 0)

Current(i) == IF i >= Len(tokens) THEN eofToken ELSE tokens[i + 1]
current == Current(index)

IsAtEnd_byIndex(i) == i >= Len(tokens)

IsAtEnd_orComment(i) == Current(i).type \in {"T_EOF", "T_COMMENT"}

IsAtEnd_orInvalid(i) == Current(i).type \in {"T_EOF", "T_INVALID_IDENTIFIER"}

\* isAtEnd(): current().type == T_EOF
IsAtEnd(i) == Current(i).type = "T_EOF"
isAtEnd == IsAtEnd(index)

Advance_inverted(i) == IF IsAtEnd(i) THEN i + 1 ELSE i

\* advance(): if (!isAtEnd()) index++; return previous();
Advance(i) == IF ~IsAtEnd(i) THEN i + 1 ELSE i

\* the subscript previous() reads after advance() has moved the cursor
Previous(i) == i - 1

ParseException_unexpectedEof(e, t, msg) ==
    [error |-> IF t.type = "T_EOF" THEN "UnexpectedEOF" ELSE e,
     token |-> t, message |-> msg]

ParseException_noToken(e, t, msg) ==
    [error |-> e, token |-> eofToken, message |-> msg]

ParseException(e, t, msg) == [error |-> e, token |-> t, message |-> msg]

LiteralExpr(v, t) == [node |-> "Literal", value |-> v, type |-> t]
IdentExpr(n) == [node |-> "Identifier", name |-> n]
VarDeclStmt(t, n, i) == [node |-> "VarDecl", type |-> t, name |-> n, init |-> i]

\* A throw leaves parseProgram: its local vector is destroyed, the caller gets
\* the exception and no program; nothing is deleted.
Throw(e, t, msg) ==
    /\ pc' = "failed"
    /\ error' = ParseException(e, t, msg)
    /\ statements' = <<>>
    /\ UNCHANGED <<index, type, name, initializer, program, prevIdx, live>>

TypeKeywords == {"T_INT", "T_FLOAT", "T_STRING", "T_BOOL"}

StartsVarDecl_orIdentifier(t) == t.type \in TypeKeywords \cup {"T_IDENTIFIER"}

\* parseStatement, lines 131-132: the current token is a type keyword
StartsVarDecl(t) == t.type \in TypeKeywords

IsVariableName_orInvalid(t) ==
    t.type \in {"T_IDENTIFIER", "T_INVALID_IDENTIFIER"}

\* parseVarDecl, line 142: the current token is an identifier
IsVariableName(t) == t.type = "T_IDENTIFIER"

----------------------------------------------------------------------------
(* Parser: parseProgram, parseStatement, parseVarDecl, parseExpression *)

\* parseProgram, lines 82 and 85: the loop ends at end of input
ParseProgramReturn ==
    /\ pc = "program"
    /\ isAtEnd
    /\ pc' = "returned"
    /\ program' = statements
    /\ UNCHANGED <<index, type, name, initializer, statements, error, prevIdx, live>>
    /\ UNCHANGED <<tokens, lexvars, history>>

\* parseProgram line 83 calling parseStatement, lines 130-136
ParseStatement ==
    /\ pc = "program"
    /\ ~isAtEnd
    /\ IF StartsVarDecl(current)
         THEN /\ pc' = "varDecl"
              /\ UNCHANGED <<index, type, name, initializer, statements,
                             program, error, prevIdx, live>>
         ELSE Throw("ExpectedTypeToken", current,
                    "Expected a type at start of statement")
    /\ UNCHANGED <<tokens, lexvars, history>>

\* parseVarDecl, lines 139-140
ParseVarDeclType ==
    /\ pc = "varDecl"
    /\ type' = current.value
    /\ index' = Advance(index)
    /\ prevIdx' = Previous(index')
    /\ pc' = "declName"
    /\ UNCHANGED <<name, initializer, statements, program, error, live>>
    /\ UNCHANGED <<tokens, lexvars, history>>

\* parseVarDecl, lines 142-148
ParseVarDeclName ==
    /\ pc = "declName"
    /\ IF ~IsVariableName(current)
         THEN Throw("ExpectedIdentifier", current,
                    "Expected variable name after type")
         ELSE /\ name' = current.value
              /\ index' = Advance(index)
              /\ prevIdx' = Previous(index')
              /\ initializer' = nullptr
              /\ pc' = "declInit"
              /\ UNCHANGED <<type, statements, program, error, live>>
    /\ UNCHANGED <<tokens, lexvars, history>>

\* parseVarDecl, line 149: match(T_ASSIGNOP)
ParseVarDeclMatch ==
    /\ pc = "declInit"
    /\ IF current.type = "T_ASSIGNOP"
         THEN /\ index' = Advance(index)
              /\ prevIdx' = Previous(index')
              /\ pc' = "expression"
         ELSE /\ pc' = "declEnd"
              /\ UNCHANGED <<index, prevIdx>>
    /\ UNCHANGED <<type, name, initializer, statements, program, error, live>>
    /\ UNCHANGED <<tokens, lexvars, history>>

\* the literal kinds of parseExpression's switch: the type name each case
\* compares with and the error it throws
LiteralCase(k) ==
    CASE k = "T_INTLIT" -> [expected |-> S_int, error |-> "ExpectedIntLit",
                            msg |-> "Expected integer literal"]
      [] k = "T_FLOATLIT" -> [expected |-> S_float, error |-> "ExpectedFloatLit",
                              msg |-> "Expected float literal"]
      [] k = "T_STRINGLIT" -> [expected |-> S_string, error |-> "ExpectedStringLit",
                               msg |-> "Expected string literal"]
      [] k = "T_BOOLLIT" -> [expected |-> S_bool, error |-> "ExpectedBoolLit",
                             msg |-> "Expected boolean literal"]

LiteralKinds == {"T_INTLIT", "T_FLOATLIT", "T_STRINGLIT", "T_BOOLLIT"}

LiteralType_intForFloat(k) ==
    CASE k = "T_INTLIT" -> S_int
      [] k = "T_FLOATLIT" -> S_int
      [] k = "T_STRINGLIT" -> S_string
      [] k = "T_BOOLLIT" -> S_bool

\* lines 163, 168, 173, 178: the type name each case gives to its LiteralExpr
LiteralType(k) ==
    CASE k = "T_INTLIT" -> S_int
      [] k = "T_FLOATLIT" -> S_float
      [] k = "T_STRINGLIT" -> S_string
      [] k = "T_BOOLLIT" -> S_bool

\* parseVarDecl line 150 calling parseExpression(type), lines 157-186.
\* No case of the switch calls advance(): the cursor stays on the token.
ParseExpression ==
    /\ pc = "expression"
    /\ IF current.type \in LiteralKinds
         THEN IF type # LiteralCase(current.type).expected
                THEN Throw(LiteralCase(current.type).error, current,
                           LiteralCase(current.type).msg)
                ELSE /\ initializer' = LiteralExpr(current.value,
                                                   LiteralType(current.type))
                     /\ live' = live + 1
                     /\ pc' = "declEnd"
                     /\ UNCHANGED <<index, type, name, statements, program,
                                    error, prevIdx>>
         ELSE IF current.type = "T_IDENTIFIER"
                THEN /\ initializer' = IdentExpr(current.value)
                     /\ live' = live + 1
                     /\ pc' = "declEnd"
                     /\ UNCHANGED <<index, type, name, statements, program,
                                    error, prevIdx>>
                ELSE Throw("ExpectedExpr", current,
                           "Expected an expression after '='")
    /\ UNCHANGED <<tokens, lexvars, history>>

\* parseVarDecl, lines 153-154: expect(T_SEMICOLON, ...) and the new statement,
\* pushed on the vector by parseProgram line 83
ParseVarDeclEnd ==
    /\ pc = "declEnd"
    /\ IF current.type # "T_SEMICOLON"
         THEN Throw("FailedToFindToken", current,
                    "Expected ';' after variable declaration")
         ELSE /\ index' = Advance(index)
              /\ prevIdx' = Previous(index')
              /\ statements' = Append(statements,
                                      VarDeclStmt(type, name, initializer))
              /\ live' = live + 1
              /\ pc' = "program"
              /\ UNCHANGED <<type, name, initializer, program, error>>
    /\ UNCHANGED <<tokens, lexvars, history>>

ParserStep ==
    \/ ParseProgramReturn
    \/ ParseStatement
    \/ ParseVarDeclType
    \/ ParseVarDeclName
    \/ ParseVarDeclMatch
    \/ ParseExpression
    \/ ParseVarDeclEnd

\* Parser(tokens) : tokens(tokens), index(0) {}
ParserInit ==
    /\ index = 0
    /\ pc = "program"
    /\ type = <<>>
    /\ name = <<>>
    /\ initializer = nullptr
    /\ statements = <<>>
    /\ program = <<>>
    /\ error = NoError
    /\ prevIdx = -1
    /\ live = 0

----------------------------------------------------------------------------
(* Token sequences given to the parser *)

TypeTokens == {[type |-> "T_INT", value |-> S_int],
               [type |-> "T_FLOAT", value |-> S_float],
               [type |-> "T_STRING", value |-> S_string],
               [type |-> "T_BOOL", value |-> S_bool]}
NameToken == [type |-> "T_IDENTIFIER", value |-> <<"x">>]
OtherNameToken == [type |-> "T_IDENTIFIER", value |-> <<"y">>]
LiteralTokens == {[type |-> "T_INTLIT", value |-> <<"4", "2">>],
                  [type |-> "T_FLOATLIT", value |-> <<"1", ".", "5">>],
                  [type |-> "T_STRINGLIT", value |-> <<"s">>],
                  [type |-> "T_BOOLLIT", value |-> S_true]}
AssignToken == [type |-> "T_ASSIGNOP", value |-> <<"=">>]
SemiToken == [type |-> "T_SEMICOLON", value |-> <<";">>]
EofToken == [type |-> "T_EOF", value |-> <<>>]
OtherTokens == {[type |-> "T_INVALID_IDENTIFIER", value |-> <<"1", "a">>]}

Alphabet == TypeTokens \cup LiteralTokens
              \cup {NameToken, AssignToken, SemiToken} \cup OtherTokens

\* the tokens in source order on one line, the i-th in column i
Place(s) == [i \in 1..Len(s) |-> Token(s[i].type, s[i].value, 1, i)]

\* every sequence of at most MaxTokens tokens, with or without end-of-input
ArbitraryInputs ==
    {Place(b \o e) : b \in BoundedSeq(Alphabet, MaxTokens),
                     e \in {<<>>, <<EofToken>>}}

\* T x ;   and   T x = expr ;   with expr a literal of any kind or y
Declarations ==
    {<<t, NameToken, SemiToken>> : t \in TypeTokens}
      \cup {<<t, NameToken, AssignToken, e, SemiToken>> :
              t \in TypeTokens, e \in LiteralTokens \cup {OtherNameToken}}

\* at most MaxDecls well-formed declarations and the end-of-input token
ProgramInputs ==
    {Place(Flatten(ds) \o <<EofToken>>) : ds \in BoundedSeq(Declarations, MaxDecls)}

Init ==
    /\ tokens \in ArbitraryInputs \cup ProgramInputs
    /\ src = <<>>
    /\ pos = 0
    /\ line = 1
    /\ col = 1
    /\ lexpc = "idle"
    /\ ParserInit
    /\ history = <<>>

Next == ParserStep

Spec == Init /\ [][Next]_vars

\* parseProgram runs to its return or to a throw: nothing suspends it
FairSpec == Spec /\ WF_vars(Next)

----------------------------------------------------------------------------
(* Tokenizer: character classes (the "C" locale; the program sets no other) *)

\* a byte of value 128 or more is written as its code
HighBytes == {"0xC3", "0xA9"}

Spaces == {" ", "\t", "\n", "\r", "\f", "0x0B"}
Digits == {"0", "1", "2", "3", "4", "5", "6", "7", "8", "9"}
Letters == {"a", "b", "c", "d", "e", "f", "g", "h", "i", "j", "k", "l", "m",
            "n", "o", "p", "q", "r", "s", "t", "u", "v", "w", "x", "y", "z",
            "A", "B", "C", "D", "E", "F", "G", "H", "I", "J", "K", "L", "M",
            "N", "O", "P", "Q", "R", "S", "T", "U", "V", "W", "X", "Y", "Z"}

isspace(c) == c \in Spaces
isalpha(c) == c \in Letters
isdigit(c) == c \in Digits
isalnum(c) == c \in Letters \cup Digits

size == Len(src)
At(p) == src[p + 1]

\* the characters of src from position p up to, not including, position q
Text(p, q) == SubSeq(src, p + 1, q)

----------------------------------------------------------------------------
(* Tokenizer: one action for each branch of the scanning loop *)

Push(tok) == tokens' = Append(tokens, tok)

\* lines 44-49
SkipWhitespace ==
    /\ lexpc = "scan"
    /\ pos < size
    /\ isspace(At(pos))
    /\ IF At(pos) = "\n"
         THEN line' = line + 1 /\ col' = 1
         ELSE line' = line /\ col' = col + 1
    /\ pos' = pos + 1
    /\ UNCHANGED <<src, lexpc, tokens, parsevars, history>>

IsIdentChar_noDigit(ch) == isalpha(ch) \/ ch = "_" \/ ch \in HighBytes

IsIdentChar_asciiOnly(ch) == isalnum(ch) \/ ch = "_"

\* line 57: a character that continues an identifier
IsIdentChar(ch) == isalnum(ch) \/ ch = "_" \/ ch \in HighBytes

\* lines 55-62: the position after the run that starts at p
RECURSIVE IdentEnd(_)
IdentEnd(p) ==
    IF p < size /\ IsIdentChar(At(p)) THEN IdentEnd(p + 1) ELSE p

\* lines 64-80
KeywordType(acc) ==
    CASE acc \in {S_true, S_false} -> "T_BOOLLIT"
      [] acc = S_fn -> "T_FUNCTION"
      [] acc = S_int -> "T_INT"
      [] acc = S_float -> "T_FLOAT"
      [] acc = S_string -> "T_STRING"
      [] acc = S_bool -> "T_BOOL"
      [] acc = S_return -> "T_RETURN"
      [] acc = S_if -> "T_IF"
      [] acc = S_else -> "T_ELSE"
      [] acc = S_for -> "T_FOR"
      [] acc = S_while -> "T_WHILE"
      [] acc = S_break -> "T_BREAK"
      [] acc = S_continue -> "T_CONTINUE"

WordType(acc) == IF acc \in keywords THEN KeywordType(acc) ELSE "T_IDENTIFIER"

\* lines 52-82
ScanIdentifier ==
    /\ lexpc = "scan"
    /\ pos < size
    /\ ~isspace(At(pos))
    /\ isalpha(At(pos)) \/ At(pos) = "_" \/ At(pos) \in HighBytes
    /\ LET end == IdentEnd(pos)
           acc == Text(pos, end)
       IN  /\ Push(Token(WordType(acc), acc, line, col))
           /\ pos' = end
           /\ col' = col + (end - pos)
    /\ UNCHANGED <<src, line, lexpc, parsevars, history>>

RECURSIVE NumberRun_noAbort(_, _)
NumberRun_noAbort(p, dotSeen) ==
    IF p >= size THEN [end |-> p, dotSeen |-> dotSeen, abort |-> FALSE]
    ELSE IF isdigit(At(p)) THEN NumberRun_noAbort(p + 1, dotSeen)
    ELSE IF At(p) = "." /\ ~dotSeen THEN NumberRun_noAbort(p + 1, TRUE)
    ELSE [end |-> p, dotSeen |-> dotSeen, abort |-> FALSE]

\* lines 89-106: the loop over digits and decimal points from position p.  It
\* ends at a second decimal point (abort), at another character or at the end
\* of the text.
RECURSIVE NumberRun(_, _)
NumberRun(p, dotSeen) ==
    IF p >= size THEN [end |-> p, dotSeen |-> dotSeen, abort |-> FALSE]
    ELSE IF isdigit(At(p)) THEN NumberRun(p + 1, dotSeen)
    ELSE IF At(p) = "." THEN
        IF dotSeen THEN [end |-> p, dotSeen |-> TRUE, abort |-> TRUE]
        ELSE NumberRun(p + 1, TRUE)
    ELSE [end |-> p, dotSeen |-> dotSeen, abort |-> FALSE]

\* line 97: the text of the token pushed at a second decimal point, the run
\* being src[from .. dot)
AbortText(from, dot) == Text(from, dot)

RECURSIVE InvalidEnd_lettersOnly(_)
InvalidEnd_lettersOnly(p) ==
    IF p < size /\ (isalpha(At(p)) \/ At(p) = "_")
      THEN InvalidEnd_lettersOnly(p + 1) ELSE p

\* line 109: the position after the letters, digits and underscores from p
RECURSIVE InvalidEnd(_)
InvalidEnd(p) ==
    IF p < size /\ (isalnum(At(p)) \/ At(p) = "_") THEN InvalidEnd(p + 1) ELSE p

\* line 108: the numeric run that ends at p goes on as an invalid identifier
StartsInvalid(p) == p < size /\ (isalpha(At(p)) \/ At(p) = "_")

\* lines 85-119
ScanNumber ==
    /\ lexpc = "scan"
    /\ pos < size
    /\ ~isspace(At(pos))
    /\ ~(isalpha(At(pos)) \/ At(pos) = "_" \/ At(pos) \in HighBytes)
    /\ isdigit(At(pos))
    /\ LET run == NumberRun(pos, FALSE)
       IN  IF run.abort
             THEN /\ Push(Token("T_INVALID_IDENTIFIER", AbortText(pos, run.end),
                                line, col))
                  /\ pos' = run.end
                  /\ col' = col + (run.end - pos)
                  /\ lexpc' = "aborted"
             ELSE IF StartsInvalid(run.end)
               THEN LET end == InvalidEnd(run.end)
                    IN  /\ Push(Token("T_INVALID_IDENTIFIER", Text(pos, end),
                                      line, col))
                        /\ pos' = end
                        /\ col' = col + (end - pos)
                        /\ lexpc' = "scan"
               ELSE /\ Push(Token(IF run.dotSeen THEN "T_FLOATLIT" ELSE "T_INTLIT",
                                  Text(pos, run.end), line, col))
                    /\ pos' = run.end
                    /\ col' = col + (run.end - pos)
                    /\ lexpc' = "scan"
    /\ UNCHANGED <<src, line, parsevars, history>>

\* lines 132-137
Unescape(esc) ==
    CASE esc = "n" -> "\n"
      [] esc = "t" -> "\t"
      [] esc = "r" -> "\r"
      [] OTHER -> esc

\* lines 126-139: the loop from position p with the text acc gathered so far
RECURSIVE StringRun(_, _)
StringRun(p, acc) ==
    IF p < size /\ At(p) # "\""
      THEN IF At(p) = "\\" /\ p + 1 < size
             THEN StringRun(p + 2, Append(acc, Unescape(At(p + 1))))
             ELSE StringRun(p + 1, Append(acc, At(p)))
      ELSE [end |-> p, acc |-> acc]

\* the branches before the string literal branch do not take the character
NotWordOrNumber(c) ==
    /\ ~isspace(c)
    /\ ~(isalpha(c) \/ c = "_" \/ c \in HighBytes)
    /\ ~isdigit(c)

\* lines 122-143
ScanString ==
    /\ lexpc = "scan"
    /\ pos < size
    /\ NotWordOrNumber(At(pos))
    /\ At(pos) = "\""
    /\ LET run == StringRun(pos + 1, <<>>)
           end == IF run.end < size /\ At(run.end) = "\""
                    THEN run.end + 1 ELSE run.end
       IN  /\ Push(Token("T_STRINGLIT", run.acc, line, col))
           /\ pos' = end
           /\ col' = col + (end - pos)
    /\ UNCHANGED <<src, line, lexpc, parsevars, history>>

\* line 150: the position of the next newline at or after p, or the end
RECURSIVE LineEnd(_)
LineEnd(p) == IF p < size /\ At(p) # "\n" THEN LineEnd(p + 1) ELSE p

\* lines 146 and 154: c is '/' and the next character is d
StartsComment(d) ==
    /\ At(pos) = "/"
    /\ pos + 1 < size
    /\ At(pos + 1) = d

\* lines 146-153
ScanLineComment ==
    /\ lexpc = "scan"
    /\ pos < size
    /\ NotWordOrNumber(At(pos))
    /\ At(pos) # "\""
    /\ StartsComment("/")
    /\ LET end == LineEnd(pos + 2)
       IN  /\ Push(Token("T_COMMENT", Text(pos + 2, end), line, col))
           /\ pos' = end
           /\ col' = col + (end - pos)
    /\ UNCHANGED <<src, line, lexpc, parsevars, history>>

\* lines 158-162: the loop from position p at line l, column c
RECURSIVE BlockRun(_, _, _)
BlockRun(p, l, c) ==
    IF p + 1 < size /\ ~(At(p) = "*" /\ At(p + 1) = "/")
      THEN IF At(p) = "\n" THEN BlockRun(p + 1, l + 1, 1)
                           ELSE BlockRun(p + 1, l, c + 1)
      ELSE [end |-> p, line |-> l, col |-> c]

\* line 164: the line the comment token carries, the comment having begun on
\* line startLine and its scan having ended on line endLine
CommentLine(startLine, endLine) == endLine

\* lines 154-166
ScanBlockComment ==
    /\ lexpc = "scan"
    /\ pos < size
    /\ NotWordOrNumber(At(pos))
    /\ At(pos) # "\""
    /\ ~StartsComment("/")
    /\ StartsComment("*")
    /\ LET run == BlockRun(pos + 2, line, col + 2)
           closed == run.end + 1 < size
       IN  /\ Push(Token("T_COMMENT", Text(pos + 2, run.end),
                         CommentLine(line, run.line), col))
           /\ pos' = IF closed THEN run.end + 2 ELSE run.end
           /\ col' = IF closed THEN run.col + 2 ELSE run.col
           /\ line' = run.line
    /\ UNCHANGED <<src, lexpc, parsevars, history>>

\* lines 177-201
SymbolType(c) ==
    CASE c = "+" -> "T_PLUS"
      [] c = "-" -> "T_MINUS"
      [] c = "*" -> "T_MULT"
      [] c = "/" -> "T_DIV"
      [] c = "%" -> "T_MOD"
      [] c = "<" -> "T_LT"
      [] c = ">" -> "T_GT"
      [] c = "!" -> "T_NOT"
      [] c = "&" -> "T_BITAND"
      [] c = "|" -> "T_BITOR"
      [] c = "^" -> "T_BITXOR"
      [] c = "~" -> "T_BITNOT"
      [] c = "(" -> "T_PARENL"
      [] c = ")" -> "T_PARENR"
      [] c = "{" -> "T_BRACEL"
      [] c = "}" -> "T_BRACER"
      [] c = "[" -> "T_BRACKL"
      [] c = "]" -> "T_BRACKR"
      [] c = "," -> "T_COMMA"
      [] c = ";" -> "T_SEMICOLON"
      [] c = ":" -> "T_COLON"
      [] c = "?" -> "T_QUESTION"
      [] c = "." -> "T_DOT"
      [] c = "=" -> "T_ASSIGNOP"
      [] OTHER -> "T_UNKNOWN"

\* lines 172-174: the two-character operators
DoubleType(c, d) ==
    CASE c = "=" /\ d = "=" -> "T_EQUALSOP"
      [] c = "+" /\ d = "+" -> "T_INCREMENT"
      [] c = "+" /\ d = "=" -> "T_PLUS_ASSIGN"
      [] OTHER -> "none"

\* lines 169-203
ScanSymbol ==
    /\ lexpc = "scan"
    /\ pos < size
    /\ NotWordOrNumber(At(pos))
    /\ At(pos) # "\""
    /\ ~StartsComment("/")
    /\ ~StartsComment("*")
    /\ LET c == At(pos)
           double == IF pos + 1 < size THEN DoubleType(c, At(pos + 1)) ELSE "none"
       IN  IF double # "none"
             THEN /\ Push(Token(double, <<c, At(pos + 1)>>, line, col))
                  /\ pos' = pos + 2
                  /\ col' = col + 2
             ELSE /\ Push(Token(SymbolType(c), <<c>>, line, col))
                  /\ pos' = pos + 1
                  /\ col' = col + 1
    /\ UNCHANGED <<src, line, lexpc, parsevars, history>>

\* lines 40 and 206-207: the loop is over, the end-of-input token is appended
AppendEof ==
    /\ lexpc = "scan"
    /\ pos >= size
    /\ Push(Token("T_EOF", <<>>, line, col))
    /\ lexpc' = "done"
    /\ UNCHANGED <<src, pos, line, col, parsevars, history>>

TokenizeStep ==
    \/ SkipWhitespace
    \/ ScanIdentifier
    \/ ScanNumber
    \/ ScanString
    \/ ScanLineComment
    \/ ScanBlockComment
    \/ ScanSymbol
    \/ AppendEof

----------------------------------------------------------------------------
(* Source texts given to tokenize: every text of at most MaxSrcLen characters *)
(* over one of these alphabets                                              *)

NumberChars == {"1", ".", "a", "_", " "}
WordChars == {"x", "1", "_", "0xC3"}
KeywordChars == {"i", "n", "t", "f"}
BoolChars == {"t", "r", "u", "e"}
StringChars == {"\"", "\\", "n", "\n"}
CommentChars == {"/", "*", "\n", "x"}
SymbolChars == {"=", "+", ";", "@"}

Dialects == {NumberChars, WordChars, KeywordChars, BoolChars, StringChars,
             CommentChars, SymbolChars}

SourceTexts == UNION {BoundedSeq(d, MaxSrcLen) : d \in Dialects}

\* no Parser is constructed
ParserIdle ==
    /\ index = 0
    /\ pc = "idle"
    /\ type = <<>>
    /\ name = <<>>
    /\ initializer = nullptr
    /\ statements = <<>>
    /\ program = <<>>
    /\ error = NoError
    /\ prevIdx = -1
    /\ live = 0

InitTokenize ==
    /\ src \in SourceTexts
    /\ pos = 0
    /\ line = 1
    /\ col = 1
    /\ lexpc = "scan"
    /\ tokens = <<>>
    /\ ParserIdle
    /\ history = <<>>

NextTokenize == TokenizeStep

SpecTokenize == InitTokenize /\ [][NextTokenize]_vars

\* tokenize runs to one of its returns: nothing suspends it
FairTokenize == SpecTokenize /\ WF_vars(NextTokenize)

(***************************************************************************)
(* runTest: tokenize the text, then construct a Parser on the returned     *)
(* tokens and call parseProgram                                            *)
(***************************************************************************)
MaxWords == 4   \* most words in a source text given to runTest

\* the pieces the source texts are put together from
Words == {<<"i", "n", "t", " ">>, <<"x">>, <<";">>, <<"=">>, <<"1">>,
          <<"\"", "s", "\"">>, <<"/", "/", "c", "\n">>,
          <<"/", "*", "c", "*", "/">>, <<"1", ".", ".">>}

RunTexts == {Flatten(ws) : ws \in BoundedSeq(Words, MaxWords)}

\* lines 225-226: Parser parser(tokens); parser.parseProgram()
StartParser ==
    /\ lexpc \in {"done", "aborted"}
    /\ pc = "idle"
    /\ index' = 0
    /\ pc' = "program"
    /\ UNCHANGED <<type, name, initializer, statements, program, error,
                   prevIdx, live>>
    /\ UNCHANGED <<tokens, lexvars, history>>

InitRun ==
    /\ src \in RunTexts
    /\ pos = 0
    /\ line = 1
    /\ col = 1
    /\ lexpc = "scan"
    /\ tokens = <<>>
    /\ ParserIdle
    /\ history = <<>>

NextRun ==
    \/ TokenizeStep
    \/ StartParser
    \/ ParserStep

SpecRun == InitRun /\ [][NextRun]_vars

(***************************************************************************)
(* main: one parse run after another, each on a Parser of its own          *)
(***************************************************************************)
MaxRuns == 3   \* most parse runs in a row

IntToken == [type |-> "T_INT", value |-> S_int]
IntLitToken == [type |-> "T_INTLIT", value |-> <<"4", "2">>]

\* the token sequences of the runs: with and without declarations, with and
\* without an initializer, with and without the end-of-input token
RerunInputs ==
    {Place(s) : s \in
       {<<>>,
        <<EofToken>>,
        <<NameToken, EofToken>>,
        <<IntToken, NameToken, SemiToken>>,
        <<IntToken, NameToken, SemiToken, EofToken>>,
        <<IntToken, NameToken, SemiToken,
          IntToken, NameToken, SemiToken, EofToken>>,
        <<IntToken, NameToken, AssignToken, IntLitToken, SemiToken, EofToken>>,
        <<IntToken, NameToken, AssignToken, OtherNameToken, SemiToken,
          EofToken>>}}

StartIndex_kept(old) == old

\* line 77: index(0)
StartIndex(old) == 0

\* what the caller of parseProgram sees of a run that ended
Outcome == [pc |-> pc, program |-> program, error |-> error]

\* lines 77 and 225-226: the next Parser parser(tokens); parser.parseProgram()
\* after the run before it ended; nodes the earlier runs allocated stay
\* allocated
Construct ==
    /\ pc \in {"returned", "failed"}
    /\ Len(history) + 1 < MaxRuns
    /\ history' = Append(history, [tokens |-> tokens, outcome |-> Outcome])
    /\ tokens' \in RerunInputs
    /\ index' = StartIndex(index)
    /\ pc' = "program"
    /\ type' = <<>>
    /\ name' = <<>>
    /\ initializer' = nullptr
    /\ statements' = <<>>
    /\ program' = <<>>
    /\ error' = NoError
    /\ prevIdx' = -1
    /\ UNCHANGED <<live, lexvars>>

InitRerun ==
    /\ tokens \in RerunInputs
    /\ src = <<>>
    /\ pos = 0
    /\ line = 1
    /\ col = 1
    /\ lexpc = "idle"
    /\ ParserInit
    /\ history = <<>>

NextRerun ==
    \/ ParserStep
    \/ Construct

SpecRerun == InitRerun /\ [][NextRerun]_vars

----------------------------------------------------------------------------
(* Claims about the tokenizer *)

Returned == lexpc \in {"done", "aborted"}

CCount(s, c) == Cardinality({i \in 1..Len(s) : s[i] = c})
CKinds(k) == {i \in 1..Len(tokens) : tokens[i].type = k}

\* the position after the digits and decimal points from p
RECURSIVE CDotsAndDigitsEnd(_)
CDotsAndDigitsEnd(p) ==
    IF p < size /\ At(p) \in Digits \cup {"."}
      THEN CDotsAndDigitsEnd(p + 1) ELSE p

\* C8: after a second decimal point the last token returned is an
\* invalid-identifier token whose text is the malformed number as written, up
\* to the end of its run of digits and decimal points, the second decimal point
\* included; a text that is one such number is the text of the token.
C8_AbortTokenHasWholeNumber ==
    lexpc = "aborted"
      => /\ tokens # <<>>
         /\ Last(tokens).type = "T_INVALID_IDENTIFIER"
         /\ \E s \in 0..pos :
               Last(tokens).value = Text(s, CDotsAndDigitsEnd(pos))
         /\ (src[1] \in Digits /\ CDotsAndDigitsEnd(0) = size)
              => Last(tokens).value = src

\* no integer or float literal token took a second decimal point or stopped at
\* one: a float literal has one decimal point and no '.' token starts where
\* it ends
CNoSecondPointPassed ==
    \A i \in 1..Len(tokens) :
       tokens[i].type \in {"T_INTLIT", "T_FLOATLIT"}
         => /\ CCount(tokens[i].value, ".") <= 1
            /\ ~(/\ tokens[i].type = "T_FLOATLIT"
                 /\ i < Len(tokens)
                 /\ tokens[i + 1].type = "T_DOT"
                 /\ tokens[i + 1].line = tokens[i].line
                 /\ tokens[i + 1].column
                      = tokens[i].column + Len(tokens[i].value))

\* the scan stands on a decimal point that follows digits with one decimal point
CAtSecondPoint ==
    /\ pos < size
    /\ At(pos) = "."
    /\ \E s \in 0..(pos - 1) :
          /\ At(s) \in Digits
          /\ CDotsAndDigitsEnd(s) > pos
          /\ CCount(Text(s, pos), ".") = 1

\* C9: the returned sequence has at most one end-of-input token; it ends with
\* one exactly when the scan met no number with a second decimal point; after
\* such a number it has none, its last token is an invalid identifier and
\* nothing more is scanned.
C9_EofIffNoSecondPoint ==
    /\ Cardinality(CKinds("T_EOF")) <= 1
    /\ lexpc = "done"
         => /\ tokens # <<>>
            /\ Last(tokens).type = "T_EOF"
            /\ pos = size
            /\ CNoSecondPointPassed
    /\ lexpc = "aborted"
         => /\ CKinds("T_EOF") = {}
            /\ tokens # <<>>
            /\ Last(tokens).type = "T_INVALID_IDENTIFIER"
            /\ CAtSecondPoint
            /\ ~ENABLED TokenizeStep

C9_Witness ==
    /\ lexpc = "aborted"
    /\ Len(tokens) >= 2
    /\ pos + 1 < size
    /\ CKinds("T_EOF") = {}

RECURSIVE CDigitsEnd(_)
CDigitsEnd(p) == IF p < size /\ At(p) \in Digits THEN CDigitsEnd(p + 1) ELSE p

\* the position after the digits with at most one decimal point from p
CNumericEnd(p) ==
    LET a == CDigitsEnd(p)
    IN  IF a < size /\ At(a) = "." THEN CDigitsEnd(a + 1) ELSE a

\* the position after the letters, digits and underscores from p
RECURSIVE CWordEnd(_)
CWordEnd(p) ==
    IF p < size /\ At(p) \in Letters \cup Digits \cup {"_"}
      THEN CWordEnd(p + 1) ELSE p

\* the scan is at a numeric run that a letter or an underscore follows
CAtNumberThenLetter ==
    /\ lexpc = "scan"
    /\ pos < size
    /\ At(pos) \in Digits
    /\ CNumericEnd(pos) < size
    /\ At(CNumericEnd(pos)) \in Letters \cup {"_"}

\* tokenize emits one invalid-identifier token for the run and the letters,
\* digits and underscores after it, and goes on scanning behind them
CNumberThenLetterStep ==
    CAtNumberThenLetter
      => /\ tokens' = Append(tokens,
                        Token("T_INVALID_IDENTIFIER",
                              Text(pos, CWordEnd(CNumericEnd(pos))), line, col))
         /\ pos' = CWordEnd(CNumericEnd(pos))
         /\ lexpc' = "scan"

\* some token is an invalid identifier with a letter or an underscore in it
CHasNumberThenLetter ==
    \E i \in CKinds("T_INVALID_IDENTIFIER") :
       \E j \in 1..Len(tokens[i].value) :
          tokens[i].value[j] \in Letters \cup {"_"}

\* C10 as claimed: a numeric run followed by a letter or underscore gives one
\* invalid-identifier token with the run and the following letters, digits and
\* underscores as text, scanning goes on, and the returned sequence still ends
\* with the end-of-input token.
C10_Original ==
    /\ [][CNumberThenLetterStep]_vars
    /\ []((Returned /\ CHasNumberThenLetter) => Last(tokens).type = "T_EOF")

\* C10 amended: the same, and the returned sequence ends with the end-of-input
\* token unless a later number of the text has a second decimal point.
C10_NumberThenLetter ==
    /\ [][CNumberThenLetterStep]_vars
    /\ []((Returned /\ CHasNumberThenLetter /\ lexpc # "aborted")
            => Last(tokens).type = "T_EOF")
    /\ []((lexpc = "aborted" /\ CHasNumberThenLetter)
            => /\ CAtSecondPoint
               /\ \E i \in CKinds("T_INVALID_IDENTIFIER") : i < Len(tokens))

C10_Witness ==
    /\ lexpc = "done"
    /\ Len(tokens) = 3
    /\ tokens[1].type = "T_INVALID_IDENTIFIER"
    /\ tokens[1].value = <<"1", ".", "a", "1">>
    /\ tokens[1].column = 1
    /\ tokens[2].type = "T_INTLIT"
    /\ tokens[2].column = 6
    /\ tokens[3].type = "T_EOF"

\* C11: every token has line >= 1 and column >= 1, and from one token to the
\* next the line does not go down and, on the same line, the column does not
\* go down.
C11_PositionsOrdered ==
    /\ \A i \in 1..Len(tokens) : tokens[i].line >= 1 /\ tokens[i].column >= 1
    /\ \A i \in 1..(Len(tokens) - 1) :
          /\ tokens[i + 1].line >= tokens[i].line
          /\ tokens[i + 1].line = tokens[i].line
               => tokens[i + 1].column >= tokens[i].column

\* the kinds of the tokens of the identifier and keyword rule
CWordKinds == {"T_IDENTIFIER", "T_BOOLLIT", "T_FUNCTION", "T_INT", "T_FLOAT",
               "T_STRING", "T_BOOL", "T_RETURN", "T_IF", "T_ELSE", "T_FOR",
               "T_WHILE", "T_BREAK", "T_CONTINUE"}

CWordStart == Letters \cup {"_"} \cup HighBytes

\* the position after the characters of the set cs from p
RECURSIVE CRunEnd(_, _)
CRunEnd(p, cs) == IF p < size /\ At(p) \in cs THEN CRunEnd(p + 1, cs) ELSE p

\* at a letter, underscore or non-ASCII byte tokenize emits one token of the
\* identifier and keyword rule whose text is the maximal run of the characters
\* cs from there, and scans on behind it
CWordStep(cs) ==
    (lexpc = "scan" /\ pos < size /\ At(pos) \in CWordStart)
      => /\ Len(tokens') = Len(tokens) + 1
         /\ SubSeq(tokens', 1, Len(tokens)) = tokens
         /\ Last(tokens').type \in CWordKinds
         /\ Last(tokens').value = Text(pos, CRunEnd(pos, cs))
         /\ pos' = CRunEnd(pos, cs)

\* C18 as claimed: the text of every token of the identifier and keyword rule
\* is a maximal run of alphabetic characters, underscores and non-ASCII bytes;
\* a digit after letters ends the identifier and starts a number token.
C18_Original ==
    /\ [][CWordStep(Letters \cup {"_"} \cup HighBytes)]_vars
    /\ [](\A i \in 1..Len(tokens) :
            tokens[i].type \in CWordKinds
              => \A j \in 1..Len(tokens[i].value) :
                    tokens[i].value[j] \in Letters \cup {"_"} \cup HighBytes)

\* C18 amended: the text is a maximal run of alphabetic characters, digits,
\* underscores and non-ASCII bytes that begins with an alphabetic character, an
\* underscore or a non-ASCII byte; a digit after letters is part of the token.
C18_WordTokens ==
    /\ [][CWordStep(Letters \cup Digits \cup {"_"} \cup HighBytes)]_vars
    /\ [](\A i \in 1..Len(tokens) :
            tokens[i].type \in CWordKinds
              => /\ tokens[i].value # <<>>
                 /\ tokens[i].value[1] \in CWordStart
                 /\ \A j \in 1..Len(tokens[i].value) :
                       tokens[i].value[j]
                         \in Letters \cup Digits \cup {"_"} \cup HighBytes)

C18_Witness ==
    /\ lexpc = "done"
    /\ Len(tokens) = 2
    /\ tokens[1].type = "T_IDENTIFIER"
    /\ tokens[1].value = <<"x", "1", "0xC3", "_", "1">>

\* C20: every iteration of the scanning loop returns or moves the scan
\* position forward by at least one character, the position never passes the
\* end of the text, every iteration but a whitespace skip appends exactly one
\* token, and tokenize ends on every text.
C20_ScanTerminates ==
    /\ [](0 <= pos /\ pos <= size)
    /\ [][(lexpc = "scan" /\ pos < size)
            => /\ lexpc' = "aborted" \/ (lexpc' = "scan" /\ pos' > pos)
               /\ IF At(pos) \in Spaces
                    THEN tokens' = tokens
                    ELSE /\ Len(tokens') = Len(tokens) + 1
                         /\ SubSeq(tokens', 1, Len(tokens)) = tokens]_vars
    /\ [][(lexpc = "scan" /\ pos >= size) => lexpc' = "done"]_vars
    /\ <>Returned

C20_Witness ==
    /\ lexpc = "done"
    /\ pos = size
    /\ size = MaxSrcLen
    /\ Len(tokens) = 3
    /\ tokens[1].type = "T_COMMENT"
    /\ tokens[2].type = "T_COMMENT"
    /\ tokens[2].line = 2

----------------------------------------------------------------------------
(* Claims about the parser *)

Finished == pc \in {"returned", "failed"}

CTypeKinds == {"T_INT", "T_FLOAT", "T_STRING", "T_BOOL"}
CLiteralKinds == {"T_INTLIT", "T_FLOATLIT", "T_STRINGLIT", "T_BOOLLIT"}

\* the literal kind of a declared type, and the error named after a declared type
CLiteralOf(k) ==
    CASE k = "T_INT" -> "T_INTLIT" [] k = "T_FLOAT" -> "T_FLOATLIT"
      [] k = "T_STRING" -> "T_STRINGLIT" [] k = "T_BOOL" -> "T_BOOLLIT"
CExpectedOf(k) ==
    CASE k = "T_INT" -> "ExpectedIntLit" [] k = "T_FLOAT" -> "ExpectedFloatLit"
      [] k = "T_STRING" -> "ExpectedStringLit" [] k = "T_BOOL" -> "ExpectedBoolLit"

KindAt(i) == IF i <= Len(tokens) THEN tokens[i].type ELSE "none"

\* the input begins  T name = <token of kind in ks>
CDeclWithInit(ks) ==
    /\ KindAt(1) \in CTypeKinds
    /\ KindAt(2) = "T_IDENTIFIER"
    /\ KindAt(3) = "T_ASSIGNOP"
    /\ KindAt(4) \in ks

\* the input is exactly  T name = <token of kind in ks> ; EOF
CWholeDecl(ks) ==
    /\ Len(tokens) = 6
    /\ CDeclWithInit(ks)
    /\ KindAt(5) = "T_SEMICOLON"
    /\ KindAt(6) = "T_EOF"

\* C1: parsing [T, n, '=', literal of the kind of T, ';', EOF] succeeds and
\* returns exactly one declaration of type T and name n whose initializer is
\* Literal with type T and the literal token's text as value.
C1_MatchingLiteralParses ==
    (Finished /\ CWholeDecl(CLiteralKinds) /\ KindAt(4) = CLiteralOf(KindAt(1)))
      => /\ pc = "returned"
         /\ program = <<VarDeclStmt(tokens[1].value, tokens[2].value,
                          LiteralExpr(tokens[4].value, tokens[1].value))>>

\* C2: parsing  T name = literal ;  with a literal of a kind that does not
\* match T fails with the ExpectedXLit kind of the declared type T, the
\* offending token is the literal token, and no statements are returned.
C2_MismatchReportsDeclaredType ==
    (Finished /\ CWholeDecl(CLiteralKinds) /\ KindAt(4) # CLiteralOf(KindAt(1)))
      => /\ pc = "failed"
         /\ error.error = CExpectedOf(KindAt(1))
         /\ error.token = tokens[4]
         /\ program = <<>>

\* C3: parsing  T x = y ;  with y an identifier succeeds for every declared
\* type T and returns one declaration whose initializer is Identifier(y).
C3_IdentifierInitializerParses ==
    (Finished /\ CWholeDecl({"T_IDENTIFIER"}))
      => /\ pc = "returned"
         /\ program = <<VarDeclStmt(tokens[1].value, tokens[2].value,
                          IdentExpr(tokens[4].value))>>

\* the token found at 1-based place i of the input: the end-of-input token
\* when the input ends before it
CTokenAt(i) == IF i <= Len(tokens) THEN tokens[i] ELSE eofToken

\* C4: a declaration  T name  or  T name = expr  (expr a literal matching T or
\* an identifier) whose next token is not ';' fails with FailedToFindToken, and
\* the offending token is that next token.
C4_MissingSemicolonReportsNextToken ==
    /\ (/\ Finished
        /\ KindAt(1) \in CTypeKinds
        /\ KindAt(2) = "T_IDENTIFIER"
        /\ CTokenAt(3).type \notin {"T_SEMICOLON", "T_ASSIGNOP"})
         => /\ pc = "failed"
            /\ error.error = "FailedToFindToken"
            /\ error.token = CTokenAt(3)
    /\ (/\ Finished
        /\ CDeclWithInit({"T_IDENTIFIER"} \cup CLiteralKinds)
        /\ KindAt(4) \in {"T_IDENTIFIER", CLiteralOf(KindAt(1))}
        /\ CTokenAt(5).type # "T_SEMICOLON")
         => /\ pc = "failed"
            /\ error.error = "FailedToFindToken"
            /\ error.token = CTokenAt(5)

\* the parser stands at the start of a statement
CAtStatementStart ==
    /\ ~Finished
    /\ \/ index = 0
       \/ index <= Len(tokens) /\ tokens[index].type = "T_SEMICOLON"

\* C5: at the start of a statement, a current token that is neither
\* end-of-input nor one of int, float, string, bool makes the parse fail with
\* ExpectedTypeToken carrying that token, and the cursor does not move.
C5_ExpectedTypeToken ==
    [][(CAtStatementStart /\ current.type \notin CTypeKinds \cup {"T_EOF"})
         => /\ pc' = "failed"
            /\ error' = [error |-> "ExpectedTypeToken", token |-> current,
                         message |-> "Expected a type at start of statement"]
            /\ index' = index
            /\ program' = <<>>]_vars

C5_Witness ==
    /\ pc = "failed"
    /\ error.error = "ExpectedTypeToken"
    /\ index = 3
    /\ error.token = tokens[4]
    /\ error.token.type = "T_IDENTIFIER"

\* the parser has just consumed a token of one of the kinds ks
CJustConsumed(ks) ==
    /\ ~Finished
    /\ index >= 1
    /\ index <= Len(tokens)
    /\ tokens[index].type \in ks

CTypeNames == {S_int, S_float, S_string, S_bool}

\* the statements of s are declarations of one of the four types, and each
\* Literal initializer carries the type of its declaration
CConsistent(s) ==
    \A i \in 1..Len(s) :
       /\ s[i].node = "VarDecl"
       /\ s[i].type \in CTypeNames
       /\ s[i].init.node = "Literal" => s[i].init.type = s[i].type

C14_NoLeakOnError ==
    pc = "failed" => live = 0

CErrorKinds == {"ExpectedTypeToken", "ExpectedIdentifier", "FailedToFindToken",
                "ExpectedIntLit", "ExpectedFloatLit", "ExpectedStringLit",
                "ExpectedBoolLit", "ExpectedExpr"}

CNoInitProgram ==
    /\ Len(tokens) % 3 = 1
    /\ Last(tokens).type = "T_EOF"
    /\ \A i \in 1..(Len(tokens) \div 3) :
          /\ tokens[3 * i - 2].type \in CTypeKinds
          /\ tokens[3 * i - 1].type = "T_IDENTIFIER"
          /\ tokens[3 * i].type = "T_SEMICOLON"

\* C17: k declarations without initializer followed by end-of-input parse to
\* exactly k statements in source order, each with the type and the name of
\* its declaration and no initializer; for k = 0 to the empty program.
C17_DeclarationsWithoutInitializer ==
    (Finished /\ CNoInitProgram)
      => /\ pc = "returned"
         /\ program = [i \in 1..(Len(tokens) \div 3) |->
                         [node |-> "VarDecl", type |-> tokens[3 * i - 2].value,
                          name |-> tokens[3 * i - 1].value,
                          init |-> [node |-> "nullptr"]]]

C17_Witness ==
    /\ pc = "returned"
    /\ Len(tokens) = 7
    /\ CNoInitProgram
    /\ Len(program) = 2
    /\ program[1].type = S_bool
    /\ program[2].type = S_int

\* a step that calls advance(): lines 140, 146, 149 (match) and 153 (expect)
CAdvanceStep ==
    \/ pc = "varDecl"
    \/ pc = "declName" /\ pc' = "declInit"
    \/ pc = "declInit" /\ pc' = "expression"
    \/ pc = "declEnd" /\ pc' = "program"

\* C19: for every token sequence, with or without the end-of-input token, a
\* parse run ends by returning or by raising one error; the cursor never goes
\* down and never passes the number of tokens; it is at least 1 whenever
\* previous() reads tokens[index - 1]; every completed statement has moved the
\* cursor by at least three tokens.
C19_CursorAndTermination ==
    /\ [](/\ 0 <= index /\ index <= Len(tokens)
          /\ index >= 3 * Len(statements)
          /\ prevIdx < Len(tokens))
    /\ [][/\ index' >= index
          /\ CAdvanceStep => index' >= 1 /\ prevIdx' = index' - 1 /\ prevIdx' >= 0
          /\ Len(statements') > Len(statements) => index' >= index + 1
          /\ Finished => UNCHANGED <<pc, program, error>>]_vars
    /\ <>Finished

C19_Witness ==
    /\ pc = "returned"
    /\ Len(tokens) = 3
    /\ Last(tokens).type = "T_SEMICOLON"
    /\ index = 3
    /\ prevIdx = 2
    /\ Len(program) = 1

\* the source text has a comment at position p: outside string literals and
\* comments, two slashes or a slash and a star
CCommentAt(p) ==
    /\ p + 1 < Len(src)
    /\ src[p + 1] = "/"
    /\ src[p + 2] \in {"/", "*"}

CHasComment == \E i \in 1..Len(tokens) : tokens[i].type = "T_COMMENT"

\* C16: tokenize emits a comment token for every line or block comment of the
\* text, and once the returned sequence has a comment token, wherever it
\* stands, parse fails with an error and never returns an AST.
C16_CommentsFailParse ==
    /\ [][(lexpc = "scan" /\ pos < size /\ ~(At(pos) \in Spaces)
             /\ CCommentAt(pos))
            => /\ Len(tokens') = Len(tokens) + 1
               /\ Last(tokens').type = "T_COMMENT"]_vars
    /\ [][CHasComment => CHasComment']_vars
    /\ [](CHasComment => pc # "returned")
    /\ []((CHasComment /\ Finished)
            => /\ pc = "failed"
               /\ error # NoError
               /\ program = <<>>)

C16_Witness ==
    /\ pc = "failed"
    /\ Len(tokens) = 5
    /\ tokens[1].type = "T_INT"
    /\ tokens[4].type = "T_COMMENT"
    /\ index = 3
    /\ error.error = "ExpectedTypeToken"
    /\ error.token.type = "T_COMMENT"

\* the runs that have ended, the one in progress included once it has ended
CRuns ==
    IF pc \in {"returned", "failed"}
      THEN Append(history, [tokens |-> tokens,
                            outcome |-> [pc |-> pc, program |-> program,
                                         error |-> error]])
      ELSE history

\* C13: any two parse runs over the identical token sequence, whatever runs
\* come before them and between them, end in the same outcome: both return
\* equal ASTs, or both fail with the same kind of error at the same token.
C13_SameTokensSameOutcome ==
    \A i, j \in 1..Len(CRuns) :
       CRuns[i].tokens = CRuns[j].tokens
         => /\ CRuns[i].outcome.pc = CRuns[j].outcome.pc
            /\ CRuns[i].outcome.pc = "returned"
                 => CRuns[i].outcome.program = CRuns[j].outcome.program
            /\ CRuns[i].outcome.pc = "failed"
                 => /\ CRuns[i].outcome.error.error = CRuns[j].outcome.error.error
                    /\ CRuns[i].outcome.error.token = CRuns[j].outcome.error.token

C13_Witness ==
    /\ Len(CRuns) = 3
    /\ CRuns[1].tokens = CRuns[3].tokens
    /\ CRuns[1].tokens # CRuns[2].tokens
    /\ CRuns[1].outcome.pc = "returned"
    /\ Len(CRuns[1].outcome.program) = 2
    /\ CRuns[2].outcome.pc = "failed"

\* tokenize returned on its abort path
CAborted == lexpc = "aborted"

\* the tokens before the last one are whole declarations without initializer
CDeclsBeforeLast ==
    /\ Len(tokens) >= 4
    /\ (Len(tokens) - 1) % 3 = 0
    /\ \A k \in 0..((Len(tokens) - 1) \div 3 - 1) :
          /\ tokens[3 * k + 1].type \in CTypeKinds
          /\ tokens[3 * k + 2].type = "T_IDENTIFIER"
          /\ tokens[3 * k + 3].type = "T_SEMICOLON"

\* C21: when tokenize took the abort path, at a number with a second decimal
\* point, the returned sequence has no end-of-input token and ends with an
\* invalid identifier; parse of it never returns an AST and ends with an
\* error; the parser never moves past the trailing invalid identifier, and
\* after valid declarations the error is raised at that token.
C21_AbortedTextFailsParse ==
    /\ [](CAborted
            => /\ CAtSecondPoint
               /\ tokens # <<>>
               /\ Last(tokens).type = "T_INVALID_IDENTIFIER"
               /\ \A i \in 1..Len(tokens) : tokens[i].type # "T_EOF")
    /\ [](CAborted => /\ pc # "returned"
                      /\ index < Len(tokens)
                      /\ prevIdx < Len(tokens) - 1)
    /\ []((CAborted /\ Finished)
            => /\ pc = "failed"
               /\ error # NoError
               /\ error.token # eofToken
               /\ program = <<>>)
    /\ []((CAborted /\ Finished /\ CDeclsBeforeLast)
            => /\ index = Len(tokens) - 1
               /\ error.error = "ExpectedTypeToken"
               /\ error.token = Last(tokens))

C21_Witness ==
    /\ lexpc = "aborted"
    /\ pc = "failed"
    /\ Len(tokens) = 4
    /\ tokens[1].type = "T_INT"
    /\ tokens[3].type = "T_SEMICOLON"
    /\ tokens[4].type = "T_INVALID_IDENTIFIER"
    /\ tokens[4].value = <<"1", ".">>
    /\ index = 3
    /\ error.error = "ExpectedTypeToken"
    /\ error.token.type = "T_INVALID_IDENTIFIER"

====
